---- MODULE Spec2Model ----
(***************************************************************************)
(* State-machine model of the wedding gift ledger's local persistence      *)
(* layer: the IndexedDB record store of src/lib/db.ts and the session hook *)
(* useDatabase that drives it.                                             *)
(*                                                                         *)
(* Encoding of JavaScript values:                                          *)
(*   - an object is a function from field names to values;                 *)
(*   - null in a number-typed field is NullNum, in a string-typed field    *)
(*     NullStr;                                                            *)
(*   - Date.now() is the variable now, advanced by Tick;                   *)
(*   - Math.random().toString(36).substr(2, 9) is a choice from RandSuffix;*)
(*   - the object store is a function from the keys present to records.    *)
(***************************************************************************)
EXTENDS Integers, Sequences, FiniteSets, TLC

VARIABLES
    store,       \* object store "guests" of wedding_gift_db: id -> GuestRecordDB
    dbInstance,  \* db.ts: TRUE when the shared handle dbInstance is set
    legacy,      \* localStorage item "wedding_money_records"
    now,         \* Date.now()
    guests,      \* useDatabase: the cached record list
    isOnline,    \* useDatabase: isOnline
    syncState,   \* useDatabase: syncState
    isLoaded,    \* useDatabase: isLoaded
    backupFile,  \* the last file written by exportJSON
    created,     \* history: name and side each stored id was first created with
    last,        \* history: the last operation, its input, the store before it, its result
    nops,        \* number of operations issued so far
    load,        \* the load in steps: initDB callers, pending transactions
    inflight     \* session calls in flight, each at its next await

vars == <<store, dbInstance, legacy, now, guests, isOnline, syncState,
          isLoaded, backupFile, created, last, nops, load, inflight>>

-----------------------------------------------------------------------------
(* Bounds *)

MaxTime == 1
MaxOps == 2
MaxCount == 2
MaxFaults == 1
MaxCalls == 2
MaxEntries == 2
MaxGuests == 8

-----------------------------------------------------------------------------
(* JavaScript values *)

NullNum == -1
NullStr == "null"

\* { ...a, ...b }
Merge(a, b) ==
    [f \in DOMAIN a \cup DOMAIN b |-> IF f \in DOMAIN b THEN b[f] ELSE a[f]]

EmptyStore == [k \in {} |-> 0]

PutAlone(s, r) == [k \in {r.id} |-> r]

\* store.put(record) with keyPath "id"
Put(s, r) ==
    [k \in DOMAIN s \cup {r.id} |-> IF k = r.id THEN r ELSE s[k]]

\* store.get(id) is s[id] when Has(s, id), undefined otherwise
Has(s, id) == id \in DOMAIN s

-----------------------------------------------------------------------------
(* Static guest list and generated ids *)

InitialGuests ==
    << [id |-> "G1", name |-> "Ann", side |-> "groom"],
       [id |-> "G2", name |-> "Bob", side |-> "bride"] >>

\* The id of the custom guest of the legacy snapshot
LegacyId == "L1"

\* The id no operation of the store creates (it can arrive by import)
OtherId == "X1"

\* The suffixes Math.random().toString(36).substr(2, 9) can give, in key order.
RandSeq == << "a", "b" >>

RandSuffix == {RandSeq[i] : i \in 1..Len(RandSeq)}

\* `CUSTOM_${Date.now()}_${Math.random().toString(36).substr(2, 9)}`
CustomId(t, rnd) == "CUSTOM_" \o ToString(t) \o "_" \o rnd

RECURSIVE CustomKeysFrom(_)
CustomKeysFrom(t) ==
    IF t > MaxTime THEN << >>
    ELSE [i \in 1..Len(RandSeq) |-> CustomId(t, RandSeq[i])] \o CustomKeysFrom(t + 1)

\* Key order of the object store (getAll returns records in key order): the
\* keys that can occur, in the order IndexedDB compares strings.
KeyOrder == CustomKeysFrom(0) \o << "G1", "G2", LegacyId, OtherId >>

\* db.getAll(STORE_NAME)
GetAllGuests(s) ==
    LET present == SelectSeq(KeyOrder, LAMBDA k : k \in DOMAIN s)
    IN  [i \in 1..Len(present) |-> s[present[i]]]

-----------------------------------------------------------------------------
(* db.ts *)

SeedRecordPending(g, t) ==
    [id |-> g.id, name |-> g.name, displayName |-> g.name, side |-> g.side,
     amountRiel |-> NullNum, paymentType |-> "cash", bankType |-> NullStr,
     bankRef |-> NullStr, note |-> "", updatedAt |-> t, syncStatus |-> "pending",
     lastSyncedAt |-> NullNum, isCustomGuest |-> FALSE]

SeedRecord(g, t) ==
    [id |-> g.id, name |-> g.name, displayName |-> g.name, side |-> g.side,
     amountRiel |-> NullNum, paymentType |-> "cash", bankType |-> NullStr,
     bankRef |-> NullStr, note |-> "", updatedAt |-> t, syncStatus |-> "local",
     lastSyncedAt |-> NullNum, isCustomGuest |-> FALSE]

RECURSIVE SeedFrom(_, _, _)
SeedFrom(s, i, t) ==
    IF i > Len(InitialGuests) THEN s
    ELSE SeedFrom(Put(s, SeedRecord(InitialGuests[i], t)), i + 1, t)

seedInitialGuests(s, t) == SeedFrom(s, 1, t)

initDBAlwaysSeeds(s, inst, t) ==
    IF inst THEN s ELSE seedInitialGuests(s, t)

\* initDB: the store after the call (the handle is set afterwards)
initDB(s, inst, t) ==
    IF inst THEN s
    ELSE IF Cardinality(DOMAIN s) = 0 THEN seedInitialGuests(s, t) ELSE s

saveGuestRecordUpsert(s, id, updates, t) ==
    LET base == IF Has(s, id) THEN s[id] ELSE SeedRecord([id |-> id, name |-> id, side |-> "groom"], t)
        updated == Merge(Merge(base, updates),
                         [id |-> id, updatedAt |-> t, syncStatus |-> "pending"])
    IN  [ok |-> TRUE, store |-> Put(s, updated), rec |-> updated]

saveGuestRecordKeepStatus(s, id, updates, t) ==
    IF ~Has(s, id) THEN [ok |-> FALSE, store |-> s, rec |-> [id |-> id]]
    ELSE LET updated == Merge(Merge(s[id], [id |-> id, updatedAt |-> t, syncStatus |-> "pending"]),
                              updates)
         IN  [ok |-> TRUE, store |-> Put(s, updated), rec |-> updated]

saveGuestRecordNoIdGuard(s, id, updates, t) ==
    IF ~Has(s, id) THEN [ok |-> FALSE, store |-> s, rec |-> [id |-> id]]
    ELSE LET updated == Merge(Merge(s[id], updates),
                              [updatedAt |-> t, syncStatus |-> "pending"])
         IN  [ok |-> TRUE, store |-> Put(s, updated), rec |-> updated]

\* saveGuestRecord(id, updates): ok = FALSE is the thrown "Guest not found"
saveGuestRecord(s, id, updates, t) ==
    IF ~Has(s, id) THEN [ok |-> FALSE, store |-> s, rec |-> [id |-> id]]
    ELSE LET updated == Merge(Merge(s[id], updates),
                              [id |-> id, updatedAt |-> t, syncStatus |-> "pending"])
         IN  [ok |-> TRUE, store |-> Put(s, updated), rec |-> updated]

\* createCustomGuest(name, side)
createCustomGuest(s, name, side, t, rnd) ==
    LET newGuest ==
            [id |-> CustomId(t, rnd), name |-> name, displayName |-> name,
             side |-> side, amountRiel |-> NullNum, paymentType |-> "cash",
             bankType |-> NullStr, bankRef |-> NullStr, note |-> "",
             updatedAt |-> t, syncStatus |-> "pending", lastSyncedAt |-> NullNum,
             isCustomGuest |-> TRUE]
    IN  [store |-> Put(s, newGuest), rec |-> newGuest]

\* getGuestsBySyncStatus(status), as the set of keys
getGuestsBySyncStatus(s, status) == {k \in DOMAIN s : s[k].syncStatus = status}

getPendingSyncCountOnlyPending(s) ==
    Cardinality(getGuestsBySyncStatus(s, "pending"))

\* getPendingSyncCount()
getPendingSyncCount(s) ==
    Cardinality(getGuestsBySyncStatus(s, "pending"))
        + Cardinality(getGuestsBySyncStatus(s, "local"))

markAsSyncedTouch(s, ids, t) ==
    [k \in DOMAIN s |->
        IF k \in ids THEN [s[k] EXCEPT !.syncStatus = "synced", !.lastSyncedAt = t,
                                       !.updatedAt = t]
        ELSE s[k]]

markAsSyncedNoStamp(s, ids, t) ==
    [k \in DOMAIN s |->
        IF k \in ids THEN [s[k] EXCEPT !.syncStatus = "synced"] ELSE s[k]]

\* markAsSynced(ids)
markAsSynced(s, ids, t) ==
    [k \in DOMAIN s |->
        IF k \in ids THEN [s[k] EXCEPT !.syncStatus = "synced", !.lastSyncedAt = t]
        ELSE s[k]]

markAsErrorClearsSync(s, id) ==
    IF Has(s, id)
    THEN Put(s, [s[id] EXCEPT !.syncStatus = "error", !.lastSyncedAt = NullNum])
    ELSE s

\* markAsError(id)
markAsError(s, id) ==
    IF Has(s, id) THEN Put(s, [s[id] EXCEPT !.syncStatus = "error"]) ELSE s

\* exportBackup(); exportedAt is not modelled (no operation reads it)
exportBackup(s) ==
    LET all == GetAllGuests(s)
    IN  [version |-> 1, guests |-> all,
         metadata |-> [totalRecords |-> Len(all),
                       pendingSync |-> Cardinality({k \in DOMAIN s :
                            s[k].syncStatus = "pending" \/ s[k].syncStatus = "local"})]]

-----------------------------------------------------------------------------
(* importBackup *)

\* JSON null as an entry of data.guests
JsNull == [jsnull |-> TRUE]

IsJsNull(guest) == "jsnull" \in DOMAIN guest

\* guest.id is a valid key (a missing id gives store.get(undefined): DataError)
ValidKey(guest) == "id" \in DOMAIN guest

\* ToNumber of a number-or-null value, as the relational operators apply it
ToNumber(x) == IF x = NullNum THEN 0 ELSE x

\* incoming > stored
JsGt(a, b) == ToNumber(a) > ToNumber(b)

ShouldImportNewerOrEqual(s, guest) ==
    ~Has(s, guest.id) \/ JsGt(guest.updatedAt, s[guest.id].updatedAt)
        \/ guest.updatedAt = s[guest.id].updatedAt

ShouldImportAlways(s, guest) == TRUE

\* !existing || guest.updatedAt > existing.updatedAt
ShouldImport(s, guest) ==
    ~Has(s, guest.id) \/ JsGt(guest.updatedAt, s[guest.id].updatedAt)

ImportedRecordKeepStatus(guest) == guest

\* { ...guest, syncStatus: "pending" }
ImportedRecord(guest) == Merge(guest, [syncStatus |-> "pending"])

\* A blank pending record for the entry's identity
BlankRecord(guest) ==
    [id |-> guest.id, name |-> guest.name, displayName |-> guest.name,
     side |-> guest.side, amountRiel |-> NullNum, paymentType |-> "cash",
     bankType |-> NullStr, bankRef |-> NullStr, note |-> "",
     updatedAt |-> guest.updatedAt, syncStatus |-> "pending",
     lastSyncedAt |-> NullNum, isCustomGuest |-> FALSE]

ImportEntryRecreate(acc, guest) ==
    LET s == acc.store
        outcome ==
            IF IsJsNull(guest) THEN "threw"
            ELSE IF ~ValidKey(guest) THEN "error"
            ELSE "imported"
        s2 == IF outcome = "imported" THEN Put(s, BlankRecord(guest)) ELSE s
    IN  [store    |-> s2,
         imported |-> acc.imported + (IF outcome = "imported" THEN 1 ELSE 0),
         skipped  |-> acc.skipped,
         errors   |-> acc.errors + (IF outcome = "error" THEN 1 ELSE 0),
         threw    |-> outcome = "threw",
         log      |-> Append(acc.log,
                        [guest |-> guest, pre |-> s, post |-> s2, outcome |-> outcome])]

\* One iteration of the loop over data.guests. outcome "threw": guest.id
\* throws in the try block and again in the catch block's console.error
\* argument, so the exception leaves importBackup.
ImportEntry(acc, guest) ==
    LET s == acc.store
        outcome ==
            IF IsJsNull(guest) THEN "threw"
            ELSE IF ~ValidKey(guest) THEN "error"
            ELSE IF ShouldImport(s, guest) THEN "imported"
            ELSE "skipped"
        s2 == IF outcome = "imported" THEN Put(s, ImportedRecord(guest)) ELSE s
    IN  [store    |-> s2,
         imported |-> acc.imported + (IF outcome = "imported" THEN 1 ELSE 0),
         skipped  |-> acc.skipped + (IF outcome = "skipped" THEN 1 ELSE 0),
         errors   |-> acc.errors + (IF outcome = "error" THEN 1 ELSE 0),
         threw    |-> outcome = "threw",
         log      |-> Append(acc.log,
                        [guest |-> guest, pre |-> s, post |-> s2, outcome |-> outcome])]

RECURSIVE ImportFrom(_, _, _)
ImportFrom(gs, i, acc) ==
    IF i > Len(gs) \/ acc.threw THEN acc
    ELSE ImportFrom(gs, i + 1, ImportEntry(acc, gs[i]))

\* importBackup(data): the store afterwards, the counts, whether it threw, and
\* the per-entry history log. Writes made before an exception stay: the
\* transaction is never aborted.
importBackup(s, data) ==
    ImportFrom(data.guests, 1,
               [store |-> s, imported |-> 0, skipped |-> 0, errors |-> 0,
                threw |-> FALSE, log |-> << >>])

\* JSON.stringify(backup) written to the downloaded file
JsonStringify(backup) == [text |-> "json", data |-> backup]

NoImport(s) ==
    [store |-> s, imported |-> 0, skipped |-> 0, errors |-> 0,
     threw |-> FALSE, log |-> << >>]

ValidFormatNoVersionCheck(data) == "guests" \in DOMAIN data

\* the negation of  !data.version || !data.guests
ValidFormat(data) ==
    /\ "version" \in DOMAIN data /\ data.version # 0
    /\ "guests" \in DOMAIN data

\* importJSON(file) up to its refresh: success, and what importBackup did
importJSON(s, file) ==
    IF file.text # "json" THEN [success |-> FALSE, r |-> NoImport(s)]
    ELSE IF ~ValidFormat(file.data) THEN [success |-> FALSE, r |-> NoImport(s)]
    ELSE LET r == importBackup(s, file.data)
         IN  [success |-> ~r.threw, r |-> r]

-----------------------------------------------------------------------------
(* migrateFromLocalStorage *)

\* A legacy record (GuestRecord of types/guest.ts): bank is << >> for null
\* and <<type, ref>> otherwise; updatedAt is << >> for null and <<t>> for the
\* ISO string of the instant t.

\* new Date(iso).getTime()
IsoToMs(iso) == iso[1]

MigratedRecordIfNewer(existing, r, t) ==
    IF Len(r.updatedAt) > 0 /\ r.updatedAt[1] < existing.updatedAt THEN existing
    ELSE Merge(existing,
          [displayName |-> IF r.displayName # "" THEN r.displayName
                           ELSE existing.displayName,
           amountRiel  |-> r.amountRiel,
           paymentType |-> IF r.paymentType # "" THEN r.paymentType ELSE "cash",
           bankType    |-> IF Len(r.bank) > 0 /\ r.bank[1] # "" THEN r.bank[1] ELSE NullStr,
           bankRef     |-> IF Len(r.bank) > 0 /\ r.bank[2] # "" THEN r.bank[2] ELSE NullStr,
           note        |-> r.note,
           updatedAt   |-> IF Len(r.updatedAt) > 0 THEN r.updatedAt[1] ELSE t,
           syncStatus  |-> "pending"])

\* The overlay of one legacy record on the existing store record
MigratedRecord(existing, r, t) ==
    Merge(existing,
          [displayName |-> IF r.displayName # "" THEN r.displayName
                           ELSE existing.displayName,
           amountRiel  |-> r.amountRiel,
           paymentType |-> IF r.paymentType # "" THEN r.paymentType ELSE "cash",
           bankType    |-> IF Len(r.bank) > 0 /\ r.bank[1] # "" THEN r.bank[1] ELSE NullStr,
           bankRef     |-> IF Len(r.bank) > 0 /\ r.bank[2] # "" THEN r.bank[2] ELSE NullStr,
           note        |-> r.note,
           updatedAt   |-> IF Len(r.updatedAt) > 0 THEN IsoToMs(r.updatedAt) ELSE t,
           syncStatus  |-> "pending"])

\* The record put for a legacy custom guest that is not in the store
MigratedCustomGuest(g, t) ==
    [id |-> g.id, name |-> g.name, displayName |-> g.name, side |-> g.side,
     amountRiel |-> NullNum, paymentType |-> "cash", bankType |-> NullStr,
     bankRef |-> NullStr, note |-> "", updatedAt |-> t, syncStatus |-> "pending",
     lastSyncedAt |-> NullNum, isCustomGuest |-> TRUE]

RECURSIVE MigrateCustomFrom(_, _, _, _)
MigrateCustomFrom(s, cs, i, t) ==
    IF i > Len(cs) THEN s
    ELSE MigrateCustomFrom(
            IF Has(s, cs[i].id) THEN s ELSE Put(s, MigratedCustomGuest(cs[i], t)),
            cs, i + 1, t)

\* The loop over Object.entries(records): the keys are distinct, so the
\* overlays are independent of the order.
MigrateRecords(s, records, t) ==
    [k \in DOMAIN s |->
        IF k \in DOMAIN records THEN MigratedRecord(s[k], records[k], t) ELSE s[k]]

migrateFromLocalStorageKeepsItem(s, inst, item, t) ==
    IF ~item.present THEN [result |-> FALSE, store |-> s, item |-> item]
    ELSE IF ~item.parsable THEN [result |-> FALSE, store |-> s, item |-> item]
    ELSE [result |-> TRUE,
          store  |-> MigrateRecords(
                        MigrateCustomFrom(initDB(s, inst, t), item.customGuests, 1, t),
                        item.records, t),
          item   |-> item]

\* migrateFromLocalStorage(): its result, the store and the localStorage item
\* afterwards
migrateFromLocalStorage(s, inst, item, t) ==
    IF ~item.present THEN [result |-> FALSE, store |-> s, item |-> item]
    ELSE IF ~item.parsable THEN [result |-> FALSE, store |-> s, item |-> item]
    ELSE [result |-> TRUE,
          store  |-> MigrateRecords(
                        MigrateCustomFrom(initDB(s, inst, t), item.customGuests, 1, t),
                        item.records, t),
          item   |-> [present |-> FALSE, parsable |-> FALSE,
                      records |-> EmptyStore, customGuests |-> << >>]]

-----------------------------------------------------------------------------
(* Inputs *)

NoItem ==
    [present |-> FALSE, parsable |-> FALSE, records |-> EmptyStore,
     customGuests |-> << >>]

BrokenItem ==
    [present |-> TRUE, parsable |-> FALSE, records |-> EmptyStore,
     customGuests |-> << >>]

\* A parsable snapshot: a record for the seeded guest G1, and a custom guest
\* with a record of its own
LegacyItem ==
    [present |-> TRUE, parsable |-> TRUE,
     records |-> [k \in {"G1", LegacyId} |->
                    IF k = "G1"
                    THEN [displayName |-> "", amountRiel |-> 5, paymentType |-> "bank",
                          bank |-> << "ABA", "ref" >>, note |-> "legacy",
                          updatedAt |-> << 0 >>]
                    ELSE [displayName |-> "Eve K", amountRiel |-> 7, paymentType |-> "cash",
                          bank |-> << >>, note |-> "", updatedAt |-> << >>]],
     customGuests |-> << [id |-> LegacyId, name |-> "Eve", side |-> "bride"] >>]

LegacyItems == {NoItem, BrokenItem, LegacyItem}

\* What the operator changes in the form before saving
FormEdits ==
    { [displayName |-> "Annie"],
      [amountInput |-> <<5>>, paymentType |-> "bank", bankType |-> "ABA",
       bankRef |-> ""],
      [amountInput |-> <<0>>, paymentType |-> "cash", note |-> "n",
       displayName |-> "Bobby"] }

\* Updates a direct caller of saveGuestRecord can pass
ApiUpdates ==
    { [syncStatus |-> "synced", updatedAt |-> 0, lastSyncedAt |-> 1],
      [name |-> "Zed", side |-> "bride", id |-> "G2"] }

NewGuests == { <<"Cat", "groom">>, <<"Dan", "bride">> }

\* The ids direct calls of saveGuestRecord and markAsError are made with
TargetIds == {"G1", OtherId}

\* The guests the operator opens in the edit form
EditedIds == {"G1", LegacyId}

FullRecord(id, name, side, t, status) ==
    [id |-> id, name |-> name, displayName |-> name, side |-> side,
     amountRiel |-> 9, paymentType |-> "bank", bankType |-> "ACLEDA",
     bankRef |-> "x", note |-> "imp", updatedAt |-> t, syncStatus |-> status,
     lastSyncedAt |-> t, isCustomGuest |-> FALSE]

\* An amount no form can produce
NegativeAmount == -5

\* A record without an id
NoIdEntry == [name |-> "Nobody", updatedAt |-> MaxTime]

Snapshot(gs) ==
    [text |-> "json",
     data |-> [version |-> 1, guests |-> gs,
               metadata |-> [totalRecords |-> Len(gs), pendingSync |-> 0]]]

CraftedFiles ==
    { Snapshot(<< FullRecord("G1", "Ann", "groom", 1, "synced"),
                  Merge(FullRecord(OtherId, "Xen", "bride", 1, "synced"),
                        [paymentType |-> "cash"]) >>),
      Snapshot(<< FullRecord("G1", "Ann B", "bride", MaxTime, "error") >>),
      Snapshot(<< JsNull, FullRecord(OtherId, "Xen", "bride", 1, "local") >>),
      Snapshot(<< NoIdEntry,
                  Merge(FullRecord("G2", "Bob", "bride", 1, "local"),
                        [amountRiel |-> NegativeAmount]) >>),
      [text |-> "json",
       data |-> [guests |-> << FullRecord("G1", "Ann", "groom", MaxTime, "synced") >>]],
      [text |-> "json", data |-> [version |-> 1]],
      [text |-> "garbage", data |-> [version |-> 1]] }

NoFile == [text |-> "none", data |-> [version |-> 0]]

-----------------------------------------------------------------------------
(* The guest form: the record shown, the form state, the values saved.     *)
(* A BankInfo object is <<type, ref>> and a null one << >>; the text of    *)
(* the amount field is << >> when empty and <<n>> when it reads as n.      *)

USD_TO_KHR_RATE == 4100

\* JavaScript truthiness of a string-or-null value
Truthy(str) == str \notin {NullStr, ""}

toGuestRecord(db) ==
    [id |-> db.id, name |-> db.name, side |-> db.side,
     displayName |-> db.displayName, amountRiel |-> db.amountRiel,
     paymentType |-> db.paymentType,
     bank |-> IF Truthy(db.bankType) /\ Truthy(db.bankRef)
              THEN <<db.bankType, db.bankRef>> ELSE << >>,
     note |-> db.note,
     updatedAt |-> IF db.updatedAt # 0 THEN <<db.updatedAt>> ELSE << >>]

guestRecords(gs) == [i \in 1..Len(gs) |-> toGuestRecord(gs[i])]

IsPendingGuest(g) == g.amountRiel = NullNum \/ g.amountRiel = 0

IsRecordedGuest(g) == g.amountRiel # NullNum /\ g.amountRiel > 0

pendingGuests(gs) == SelectSeq(guestRecords(gs), IsPendingGuest)

recordedGuests(gs) == SelectSeq(guestRecords(gs), IsRecordedGuest)

\* Index.tsx: the records the operator can select
allGuests(gs) == pendingGuests(gs) \o recordedGuests(gs)

\* GuestForm: the form state when a guest is opened
InitialFormData(guest) ==
    [amountInput |-> IF guest.amountRiel = NullNum THEN << >>
                     ELSE <<guest.amountRiel>>,
     isUSD |-> FALSE,
     paymentType |-> IF guest.paymentType = NullStr THEN "cash"
                     ELSE guest.paymentType,
     bankType |-> IF guest.bank = << >> THEN "" ELSE guest.bank[1],
     bankRef |-> IF guest.bank = << >> THEN "" ELSE guest.bank[2],
     note |-> IF guest.note = NullStr THEN "" ELSE guest.note,
     displayName |-> IF Truthy(guest.displayName) THEN guest.displayName
                     ELSE guest.name]

\* parseFloat(amountInput) || 0, converted when the dollar box is ticked
calculatedRiel(formData) ==
    LET value == IF formData.amountInput = << >> THEN 0
                 ELSE formData.amountInput[1]
    IN  IF formData.isUSD THEN value * USD_TO_KHR_RATE ELSE value

\* performSave: the arguments handed to onSave
performSave(guest, formData) ==
    [guestId |-> guest.id,
     amountRiel |-> IF calculatedRiel(formData) = 0 THEN NullNum
                    ELSE calculatedRiel(formData),
     paymentType |-> formData.paymentType,
     bank |-> IF formData.paymentType = "bank" /\ formData.bankType # ""
              THEN <<formData.bankType, formData.bankRef>> ELSE << >>,
     note |-> formData.note,
     displayName |-> formData.displayName]

\* performSave: the toast shown after onSave was called (its result is not
\* awaited or read)
performSaveToast == "success"

\* useDatabase.saveGuest: the updates handed to saveGuestRecord
saveGuestUpdates(a) ==
    [amountRiel |-> a.amountRiel,
     paymentType |-> a.paymentType,
     bankType |-> IF a.bank # << >> /\ Truthy(a.bank[1]) THEN a.bank[1] ELSE NullStr,
     bankRef |-> IF a.bank # << >> /\ Truthy(a.bank[2]) THEN a.bank[2] ELSE NullStr,
     note |-> a.note,
     displayName |-> a.displayName]

-----------------------------------------------------------------------------
(* Totals *)

RoundPercentDown(count, n) == (100 * count) \div n

\* Math.round((count / n) * 100) for 0 <= count <= n, n > 0: halves round up
RoundPercent(count, n) == (200 * count + n) \div (2 * n)

NoTotals == [totalCash |-> 0, totalBank |-> 0, cashCount |-> 0, bankCount |-> 0]

\* The body of guests.forEach in totals, without the test amountRiel > 0
AccumulateAll(acc, guest) ==
    IF guest.paymentType = "cash"
    THEN [acc EXCEPT !.totalCash = @ + guest.amountRiel, !.cashCount = @ + 1]
    ELSE [acc EXCEPT !.totalBank = @ + guest.amountRiel, !.bankCount = @ + 1]

\* The body of guests.forEach in totals
Accumulate(acc, guest) ==
    IF guest.amountRiel # NullNum /\ guest.amountRiel > 0
    THEN IF guest.paymentType = "cash"
         THEN [acc EXCEPT !.totalCash = @ + guest.amountRiel, !.cashCount = @ + 1]
         ELSE [acc EXCEPT !.totalBank = @ + guest.amountRiel, !.bankCount = @ + 1]
    ELSE acc

RECURSIVE AccumulateFrom(_, _, _)
AccumulateFrom(gs, i, acc) ==
    IF i > Len(gs) THEN acc ELSE AccumulateFrom(gs, i + 1, Accumulate(acc, gs[i]))

\* useDatabase.totals
totals(gs) ==
    LET acc == AccumulateFrom(gs, 1, NoTotals)
        contributorCount == acc.cashCount + acc.bankCount
    IN  [totalCash |-> acc.totalCash,
         totalBank |-> acc.totalBank,
         grandTotal |-> acc.totalCash + acc.totalBank,
         contributorCount |-> contributorCount,
         cashCount |-> acc.cashCount,
         bankCount |-> acc.bankCount,
         cashPercent |-> IF contributorCount > 0
                         THEN RoundPercent(acc.cashCount, contributorCount) ELSE 0,
         bankPercent |-> IF contributorCount > 0
                         THEN RoundPercent(acc.bankCount, contributorCount) ELSE 0]

-----------------------------------------------------------------------------
(* The status indicator: what getStatus returns, named by its icon *)

getStatusSyncingFirst(state, online) ==
    IF ~online THEN [icon |-> "WifiOff", count |-> NullNum]
    ELSE IF state.isSyncing THEN [icon |-> "Loader2", count |-> NullNum]
    ELSE IF state.errorCount > 0
        THEN [icon |-> "CloudOff", count |-> state.errorCount]
    ELSE IF state.pendingCount > 0
        THEN [icon |-> "Cloud", count |-> state.pendingCount]
    ELSE [icon |-> "Check", count |-> NullNum]

\* SyncStatus.getStatus(): count is the number shown in the subtext
getStatus(state, online) ==
    IF ~online THEN [icon |-> "WifiOff", count |-> NullNum]
    ELSE IF state.errorCount > 0
        THEN [icon |-> "CloudOff", count |-> state.errorCount]
    ELSE IF state.isSyncing THEN [icon |-> "Loader2", count |-> NullNum]
    ELSE IF state.pendingCount > 0
        THEN [icon |-> "Cloud", count |-> state.pendingCount]
    ELSE [icon |-> "Check", count |-> NullNum]

\* The props a SyncStatus component can be rendered with
SyncStates ==
    [isOnline : BOOLEAN, isSyncing : BOOLEAN, lastSyncTime : {NullNum},
     pendingCount : 0..MaxCount, errorCount : 0..MaxCount]

-----------------------------------------------------------------------------
(* History *)

\* The name and side each stored id was first created with; an id that
\* leaves the store (clearAllData) is forgotten.
Track(c, s) ==
    [k \in DOMAIN s |->
        IF k \in DOMAIN c THEN c[k] ELSE [name |-> s[k].name, side |-> s[k].side]]

RECURSIVE TrackLog(_, _, _)
TrackLog(c, log, i) ==
    IF i > Len(log) THEN c ELSE TrackLog(Track(c, log[i].post), log, i + 1)

NoArg == [none |-> TRUE]

Op(op, id, arg, pre, ok, out, log) ==
    [op |-> op, id |-> id, arg |-> arg, pre |-> pre, at |-> now, ok |-> ok,
     out |-> out, log |-> log]

\* useState<SyncState>'s initial value
InitialSyncState(online) ==
    [isOnline |-> online, isSyncing |-> FALSE, lastSyncTime |-> NullNum,
     pendingCount |-> 0, errorCount |-> 0]

\* No initDB call begun, no transaction pending
NoLoad ==
    [hook |-> "idle", other |-> "idle", txq |-> << >>, seedings |-> 0,
     faults |-> 0, failed |-> "", attempts |-> 0]

\* refreshGuests()
Refresh(s) ==
    /\ guests' = GetAllGuests(s)
    /\ syncState' = [syncState EXCEPT !.pendingCount = getPendingSyncCount(s)]

-----------------------------------------------------------------------------
(* State machine *)

\* The page before the hook mounts, online or offline
InitOnline ==
    /\ store = EmptyStore
    /\ dbInstance = FALSE
    /\ legacy \in LegacyItems
    /\ now = 0
    /\ guests = << >>
    /\ isOnline \in BOOLEAN
    /\ syncState = InitialSyncState(isOnline)
    /\ isLoaded = FALSE
    /\ backupFile = NoFile
    /\ created = EmptyStore
    /\ last = Op("none", "", NoArg, EmptyStore, TRUE, NoArg, << >>)
    /\ nops = 0
    /\ load = NoLoad
    /\ inflight = << >>

\* The page loaded while online: no store operation reads isOnline, so the
\* store's behaviour is explored with the connectivity fixed, and SpecOnline
\* explores the session under connectivity changes.
Init == InitOnline /\ isOnline = TRUE

\* Date.now() advances
Tick ==
    /\ now < MaxTime
    /\ now' = now + 1
    /\ UNCHANGED <<load, inflight>>
    /\ UNCHANGED <<store, dbInstance, legacy, guests, isOnline, syncState,
                   isLoaded, backupFile, created, last, nops>>

\* useDatabase's init effect: initDB, migrateFromLocalStorage, load
InitSession ==
    /\ ~isLoaded
    /\ LET s1 == initDB(store, dbInstance, now)
           m  == migrateFromLocalStorage(s1, TRUE, legacy, now)
       IN  /\ store' = m.store
           /\ legacy' = m.item
           /\ created' = Track(Track(created, s1), m.store)
           /\ last' = Op("init", "", legacy, store, TRUE,
                         [migrated |-> m.result, afterInit |-> s1], << >>)
           /\ Refresh(m.store)
    /\ dbInstance' = TRUE
    /\ isLoaded' = TRUE
    /\ UNCHANGED <<load, inflight>>
    /\ UNCHANGED <<now, isOnline, backupFile, nops>>

\* handleOnline / handleOffline: the browser's online and offline events
HandleOnline ==
    /\ ~isOnline
    /\ isOnline' = TRUE
    /\ syncState' = [syncState EXCEPT !.isOnline = TRUE]
    /\ UNCHANGED <<load, inflight>>
    /\ UNCHANGED <<store, dbInstance, legacy, now, guests, isLoaded,
                   backupFile, created, last, nops>>

HandleOfflineResetsState ==
    /\ isOnline
    /\ isOnline' = FALSE
    /\ syncState' = InitialSyncState(FALSE)
    /\ UNCHANGED <<load, inflight>>
    /\ UNCHANGED <<store, dbInstance, legacy, now, guests, isLoaded,
                   backupFile, created, last, nops>>

HandleOffline ==
    /\ isOnline
    /\ isOnline' = FALSE
    /\ syncState' = [syncState EXCEPT !.isOnline = FALSE]
    /\ UNCHANGED <<load, inflight>>
    /\ UNCHANGED <<store, dbInstance, legacy, now, guests, isLoaded,
                   backupFile, created, last, nops>>

\* A new page load: the module state and the hook state are reset
Reload ==
    /\ isLoaded
    /\ nops < MaxOps
    /\ nops' = nops + 1
    /\ dbInstance' = FALSE
    /\ isLoaded' = FALSE
    /\ guests' = << >>
    /\ syncState' = InitialSyncState(isOnline)
    /\ last' = Op("reload", "", NoArg, store, TRUE, NoArg, << >>)
    /\ UNCHANGED <<load, inflight>>
    /\ UNCHANGED <<store, legacy, now, isOnline, backupFile, created>>

\* The operator opens a listed guest, edits the form and saves:
\* GuestForm.handleSubmit, performSave, then useDatabase.saveGuest
\* (saveGuestRecord, and refreshGuests on success)
SaveGuest ==
    /\ isLoaded
    /\ nops < MaxOps
    /\ \E i \in 1..Len(guests), edit \in FormEdits :
         /\ guests[i].id \in EditedIds
         /\ \E j \in 1..Len(allGuests(guests)) :
                allGuests(guests)[j] = toGuestRecord(guests[i])
         /\ LET guest    == toGuestRecord(guests[i])
                formData == Merge(InitialFormData(guest), edit)
                updates  == saveGuestUpdates(performSave(guest, formData))
                s0 == initDB(store, dbInstance, now)
                r  == saveGuestRecord(s0, guest.id, updates, now)
            IN  /\ calculatedRiel(formData) >= 0
                /\ store' = r.store
                /\ created' = Track(created, r.store)
                /\ last' = Merge(Op("saveGuest", guest.id,
                                    [opened |-> guests[i], edit |-> edit,
                                     updates |-> updates],
                                    store, r.ok, r.rec, << >>),
                                 [toast |-> performSaveToast])
                /\ IF r.ok THEN Refresh(r.store)
                   ELSE UNCHANGED <<guests, syncState>>
    /\ nops' = nops + 1
    /\ dbInstance' = TRUE
    /\ UNCHANGED <<load, inflight>>
    /\ UNCHANGED <<legacy, now, isOnline, isLoaded, backupFile>>

\* saveGuestRecord called directly
SaveGuestRecord ==
    /\ isLoaded
    /\ nops < MaxOps
    /\ \E id \in TargetIds, updates \in ApiUpdates :
         LET s0 == initDB(store, dbInstance, now)
             r  == saveGuestRecord(s0, id, updates, now)
         IN  /\ store' = r.store
             /\ created' = Track(created, r.store)
             /\ last' = Op("save", id, updates, store, r.ok, r.rec, << >>)
    /\ nops' = nops + 1
    /\ dbInstance' = TRUE
    /\ UNCHANGED <<load, inflight>>
    /\ UNCHANGED <<legacy, now, guests, isOnline, syncState, isLoaded, backupFile>>

\* useDatabase.createGuest: createCustomGuest, then refreshGuests
CreateGuest ==
    /\ isLoaded
    /\ nops < MaxOps
    /\ \E g \in NewGuests, rnd \in RandSuffix :
         LET s0 == initDB(store, dbInstance, now)
             r  == createCustomGuest(s0, g[1], g[2], now, rnd)
         IN  /\ store' = r.store
             /\ created' = Track(created, r.store)
             /\ last' = Op("create", r.rec.id, NoArg, store, TRUE, r.rec, << >>)
             /\ Refresh(r.store)
    /\ nops' = nops + 1
    /\ dbInstance' = TRUE
    /\ UNCHANGED <<load, inflight>>
    /\ UNCHANGED <<legacy, now, isOnline, isLoaded, backupFile>>

\* markAsSynced(ids) called directly
MarkAsSynced ==
    /\ isLoaded
    /\ nops < MaxOps
    /\ \E ids \in {{"G1"}, DOMAIN store \cup {OtherId}} :
         LET s0 == initDB(store, dbInstance, now)
             s1 == markAsSynced(s0, ids, now)
         IN  /\ store' = s1
             /\ created' = Track(created, s1)
             /\ last' = Op("markSynced", "", [ids |-> ids], store, TRUE, NoArg, << >>)
    /\ nops' = nops + 1
    /\ dbInstance' = TRUE
    /\ UNCHANGED <<load, inflight>>
    /\ UNCHANGED <<legacy, now, guests, isOnline, syncState, isLoaded, backupFile>>

\* markAsError(id) called directly
MarkAsError ==
    /\ isLoaded
    /\ nops < MaxOps
    /\ \E id \in TargetIds :
         LET s0 == initDB(store, dbInstance, now)
             s1 == markAsError(s0, id)
         IN  /\ store' = s1
             /\ created' = Track(created, s1)
             /\ last' = Op("markError", id, NoArg, store, TRUE, NoArg, << >>)
    /\ nops' = nops + 1
    /\ dbInstance' = TRUE
    /\ UNCHANGED <<load, inflight>>
    /\ UNCHANGED <<legacy, now, guests, isOnline, syncState, isLoaded, backupFile>>

\* useDatabase.exportJSON: exportBackup written to a file
ExportJSON ==
    /\ isLoaded
    /\ nops < MaxOps
    /\ LET s0 == initDB(store, dbInstance, now)
       IN  /\ store' = s0
           /\ created' = Track(created, s0)
           /\ backupFile' = JsonStringify(exportBackup(s0))
           /\ last' = Op("export", "", NoArg, store, TRUE, exportBackup(s0), << >>)
    /\ nops' = nops + 1
    /\ dbInstance' = TRUE
    /\ UNCHANGED <<load, inflight>>
    /\ UNCHANGED <<legacy, now, guests, isOnline, syncState, isLoaded>>

\* useDatabase.importJSON: format check, importBackup, refreshGuests on success
ImportJSON ==
    /\ isLoaded
    /\ nops < MaxOps
    /\ \E file \in CraftedFiles \cup {backupFile} :
         /\ file # NoFile
         /\ LET valid == file.text = "json" /\ ValidFormat(file.data)
                s0 == IF valid THEN initDB(store, dbInstance, now) ELSE store
                r  == importJSON(s0, file)
            IN  /\ store' = r.r.store
                /\ created' = TrackLog(Track(created, s0), r.r.log, 1)
                /\ last' = Op("import", "", file, store, r.success,
                              [imported |-> r.r.imported, skipped |-> r.r.skipped,
                               errors |-> r.r.errors], r.r.log)
                /\ dbInstance' = (dbInstance \/ valid)
                /\ IF r.success THEN Refresh(r.r.store)
                   ELSE UNCHANGED <<guests, syncState>>
    /\ nops' = nops + 1
    /\ UNCHANGED <<load, inflight>>
    /\ UNCHANGED <<legacy, now, isOnline, isLoaded, backupFile>>

\* clearAllData() called directly
ClearAllData ==
    /\ isLoaded
    /\ nops < MaxOps
    /\ store' = EmptyStore
    /\ created' = EmptyStore
    /\ last' = Op("clear", "", NoArg, store, TRUE, NoArg, << >>)
    /\ nops' = nops + 1
    /\ dbInstance' = TRUE
    /\ UNCHANGED <<load, inflight>>
    /\ UNCHANGED <<legacy, now, guests, isOnline, syncState, isLoaded, backupFile>>

Next ==
    \/ Tick
    \/ InitSession
    \/ Reload
    \/ ImportJSON
    \/ ExportJSON
    \/ SaveGuest
    \/ CreateGuest
    \/ SaveGuestRecord
    \/ MarkAsSynced
    \/ MarkAsError
    \/ ClearAllData

Spec == Init /\ [][Next]_vars

\* The session under online and offline events
NextOnline ==
    \/ Tick
    \/ HandleOnline
    \/ HandleOffline
    \/ InitSession
    \/ Reload
    \/ SaveGuest
    \/ CreateGuest

SpecOnline == InitOnline /\ [][NextOnline]_vars

-----------------------------------------------------------------------------
(* The status indicator on its own: every combination of props is rendered *)

InitStatus ==
    /\ store = EmptyStore
    /\ dbInstance = FALSE
    /\ legacy = NoItem
    /\ now = 0
    /\ guests = << >>
    /\ isOnline \in BOOLEAN
    /\ syncState \in SyncStates
    /\ isLoaded = FALSE
    /\ backupFile = NoFile
    /\ created = EmptyStore
    /\ last = Op("none", "", NoArg, EmptyStore, TRUE, NoArg, << >>)
    /\ nops = 0
    /\ load = NoLoad
    /\ inflight = << >>

\* SyncStatus renders: status = getStatus()
RenderStatus ==
    /\ last.op = "none"
    /\ last' = Op("render", "", [syncState |-> syncState, isOnline |-> isOnline],
                  store, TRUE, getStatus(syncState, isOnline), << >>)
    /\ UNCHANGED <<load, inflight>>
    /\ UNCHANGED <<store, dbInstance, legacy, now, guests, isOnline, syncState,
                   isLoaded, backupFile, created, nops>>

NextStatus == RenderStatus

SpecStatus == InitStatus /\ [][NextStatus]_vars

-----------------------------------------------------------------------------
(* The load in steps.  Each await of initDB, migrateFromLocalStorage and   *)
(* the hook's init() is a step.  A transaction enters load.txq when it is  *)
(* created and the transactions run in the order of their creation; the    *)
(* continuation of an await runs when its transaction has run.  A storage  *)
(* call can fail (at most MaxFaults times).  "hook" is init() of           *)
(* useDatabase, "other" a second caller of initDB.                         *)

\* Where a caller continues when its initDB call has returned
Opened(c) == IF c = "hook" THEN "migrate" ELSE "done"

AbortedTxKeepsWrites(s, partial) == partial

\* A request that fails aborts its transaction: none of the writes made in it
\* (partial) remains
AbortedTx(s, partial) == s

\* The caller's initDB call threw at the given stage: init() of the hook
\* catches it and calls setIsLoaded(true)
Thrown(l, c, stage) ==
    IF c = "hook"
    THEN [l EXCEPT !.hook = "done", !.failed = stage, !.faults = @ + 1]
    ELSE [l EXCEPT !.other = "done", !.faults = @ + 1]

CatchLoadedForgets(c, loaded) == loaded

\* isLoaded after the caller's call threw: the catch block of init() calls
\* setIsLoaded(true)
CatchLoaded(c, loaded) == loaded \/ c = "hook"

\* init() calls initDB(): if (dbInstance) return dbInstance
HookInit ==
    /\ load.hook = "idle"
    /\ ~isLoaded
    /\ load' = [load EXCEPT !.hook = IF dbInstance THEN "migrate" ELSE "opening"]
    /\ UNCHANGED <<store, dbInstance, legacy, now, guests, isOnline, syncState,
                   isLoaded, backupFile, created, last, nops, inflight>>

\* Another caller calls initDB()
OtherCall ==
    /\ load.other = "idle"
    /\ load' = [load EXCEPT !.other = IF dbInstance THEN "done" ELSE "opening"]
    /\ UNCHANGED <<store, dbInstance, legacy, now, guests, isOnline, syncState,
                   isLoaded, backupFile, created, last, nops, inflight>>

\* dbInstance = await openDB(...), then the count request is made
DbOpen(c) ==
    /\ load[c] = "opening"
    /\ \/ /\ dbInstance' = TRUE
          /\ load' = [load EXCEPT ![c] = "counting",
                        !.txq = Append(@, [kind |-> "count", by |-> c, t |-> now])]
          /\ UNCHANGED isLoaded
       \/ /\ load.faults < MaxFaults
          /\ load' = Thrown(load, c, "initDB")
          /\ isLoaded' = CatchLoaded(c, isLoaded)
          /\ UNCHANGED dbInstance
    /\ UNCHANGED <<store, legacy, now, guests, isOnline, syncState, backupFile,
                   created, last, nops, inflight>>

\* count(STORE_NAME) runs; when it is 0 seedInitialGuests opens its transaction
ExecCount ==
    /\ load.txq # << >>
    /\ Head(load.txq).kind = "count"
    /\ LET tx == Head(load.txq)
           l  == [load EXCEPT !.txq = Tail(@)]
       IN  \/ /\ load' = IF Cardinality(DOMAIN store) = 0
                         THEN [l EXCEPT ![tx.by] = "seeding",
                                 !.txq = Append(@, [kind |-> "seed", by |-> tx.by,
                                                    t |-> now])]
                         ELSE [l EXCEPT ![tx.by] = Opened(tx.by)]
              /\ UNCHANGED isLoaded
           \/ /\ load.faults < MaxFaults
              /\ load' = Thrown(l, tx.by, "initDB")
              /\ isLoaded' = CatchLoaded(tx.by, isLoaded)
    /\ UNCHANGED <<store, dbInstance, legacy, now, guests, isOnline, syncState,
                   backupFile, created, last, nops, inflight>>

ExecSeedShowsPage ==
    /\ load.txq # << >>
    /\ Head(load.txq).kind = "seed"
    /\ LET tx == Head(load.txq)
           l  == [load EXCEPT !.txq = Tail(@)]
       IN  \/ /\ store' = seedInitialGuests(store, tx.t)
              /\ load' = [l EXCEPT ![tx.by] = Opened(tx.by), !.seedings = @ + 1]
              /\ isLoaded' = TRUE
           \/ /\ load.faults < MaxFaults
              /\ store' = AbortedTx(store, Put(store, SeedRecord(InitialGuests[1], tx.t)))
              /\ load' = Thrown(l, tx.by, "initDB")
              /\ isLoaded' = CatchLoaded(tx.by, isLoaded)
    /\ UNCHANGED <<dbInstance, legacy, now, guests, isOnline, syncState,
                   backupFile, created, last, nops, inflight>>

\* The transaction of seedInitialGuests runs
ExecSeed ==
    /\ load.txq # << >>
    /\ Head(load.txq).kind = "seed"
    /\ LET tx == Head(load.txq)
           l  == [load EXCEPT !.txq = Tail(@)]
       IN  \/ /\ store' = seedInitialGuests(store, tx.t)
              /\ load' = [l EXCEPT ![tx.by] = Opened(tx.by), !.seedings = @ + 1]
              /\ UNCHANGED isLoaded
           \/ /\ load.faults < MaxFaults
              /\ store' = AbortedTx(store, Put(store, SeedRecord(InitialGuests[1], tx.t)))
              /\ load' = Thrown(l, tx.by, "initDB")
              /\ isLoaded' = CatchLoaded(tx.by, isLoaded)
    /\ UNCHANGED <<dbInstance, legacy, now, guests, isOnline, syncState,
                   backupFile, created, last, nops, inflight>>

\* init() calls migrateFromLocalStorage(): it returns false at once, or
\* opens its transaction (its initDB call returns the handle)
HookMigrate ==
    /\ load.hook = "migrate"
    /\ IF legacy.present /\ legacy.parsable
       THEN /\ load' = [load EXCEPT !.hook = "migrating",
                          !.txq = Append(@, [kind |-> "migrate", by |-> "hook",
                                             t |-> now])]
            /\ UNCHANGED last
       ELSE /\ load' = [load EXCEPT !.hook = "load"]
            /\ last' = Op("migrate", "", legacy, store, FALSE,
                          [migrated |-> FALSE, post |-> store, t |-> now], << >>)
    /\ UNCHANGED <<store, dbInstance, legacy, now, guests, isOnline, syncState,
                   isLoaded, backupFile, created, nops, inflight>>

\* The transaction of migrateFromLocalStorage runs; then removeItem
ExecMigrate ==
    /\ load.txq # << >>
    /\ Head(load.txq).kind = "migrate"
    /\ LET tx == Head(load.txq)
           l  == [load EXCEPT !.txq = Tail(@), !.hook = "load"]
           m  == migrateFromLocalStorage(store, TRUE, legacy, tx.t)
           ab == AbortedTx(store, MigrateCustomFrom(store, legacy.customGuests, 1, tx.t))
       IN  \/ /\ store' = m.store
              /\ legacy' = m.item
              /\ load' = l
              /\ last' = Op("migrate", "", legacy, store, TRUE,
                            [migrated |-> m.result, post |-> m.store, t |-> tx.t],
                            << >>)
           \/ /\ load.faults < MaxFaults
              /\ store' = ab
              /\ UNCHANGED legacy
              /\ load' = [l EXCEPT !.faults = @ + 1, !.attempts = @ + 1]
              /\ last' = Op("migrate", "", legacy, store, FALSE,
                            [migrated |-> FALSE, post |-> ab, t |-> tx.t], << >>)
    /\ UNCHANGED <<dbInstance, now, guests, isOnline, syncState, isLoaded,
                   backupFile, created, nops, inflight>>

\* init() calls getAllGuests(): its read is queued behind the transactions
\* made before it
HookGetAll ==
    /\ load.hook = "load"
    /\ load' = [load EXCEPT !.hook = "loading",
                  !.txq = Append(@, [kind |-> "getAll", by |-> "hook", t |-> now])]
    /\ UNCHANGED <<store, dbInstance, legacy, now, guests, isOnline, syncState,
                   isLoaded, backupFile, created, last, nops, inflight>>

\* getAll runs: setGuests(allGuests), then the pending count is requested
ExecGetAll ==
    /\ load.txq # << >>
    /\ Head(load.txq).kind = "getAll"
    /\ LET l == [load EXCEPT !.txq = Tail(@)]
       IN  \/ /\ guests' = GetAllGuests(store)
              /\ load' = [l EXCEPT !.hook = "pending",
                            !.txq = Append(@, [kind |-> "pending", by |-> "hook",
                                               t |-> now])]
              /\ UNCHANGED isLoaded
           \/ /\ load.faults < MaxFaults
              /\ load' = Thrown(l, "hook", "getAll")
              /\ isLoaded' = CatchLoaded("hook", isLoaded)
              /\ UNCHANGED guests
    /\ UNCHANGED <<store, dbInstance, legacy, now, isOnline, syncState,
                   backupFile, created, last, nops, inflight>>

\* The pending count runs: setSyncState, then setIsLoaded(true)
ExecPending ==
    /\ load.txq # << >>
    /\ Head(load.txq).kind = "pending"
    /\ LET l == [load EXCEPT !.txq = Tail(@)]
       IN  \/ /\ syncState' = [syncState EXCEPT
                                 !.pendingCount = getPendingSyncCount(store)]
              /\ load' = [l EXCEPT !.hook = "done"]
              /\ isLoaded' = TRUE
           \/ /\ load.faults < MaxFaults
              /\ load' = Thrown(l, "hook", "count")
              /\ isLoaded' = CatchLoaded("hook", isLoaded)
              /\ UNCHANGED syncState
    /\ UNCHANGED <<store, dbInstance, legacy, now, guests, isOnline,
                   backupFile, created, last, nops, inflight>>

\* A new page load after the hook has finished: pending work is dropped
ReloadPage ==
    /\ load.hook = "done"
    /\ nops < MaxOps
    /\ nops' = nops + 1
    /\ dbInstance' = FALSE
    /\ isLoaded' = FALSE
    /\ guests' = << >>
    /\ syncState' = InitialSyncState(isOnline)
    /\ last' = Op("reload", "", NoArg, store, TRUE, NoArg, << >>)
    /\ load' = [load EXCEPT !.hook = "idle", !.other = "idle", !.txq = << >>,
                            !.failed = ""]
    /\ UNCHANGED <<store, legacy, now, isOnline, backupFile, created, inflight>>

\* The positions of init() at which initDB or migrateFromLocalStorage has
\* not returned
InitStages == {"idle", "opening", "counting", "seeding", "migrate", "migrating"}

\* The steps that end the hook's load
LoadProgress ==
    \/ HookInit
    \/ DbOpen("hook")
    \/ DbOpen("other")
    \/ ExecCount
    \/ ExecSeed
    \/ HookMigrate
    \/ ExecMigrate
    \/ HookGetAll
    \/ ExecGetAll
    \/ ExecPending

NextLoad ==
    \/ Tick
    \/ HookInit
    \/ OtherCall
    \/ DbOpen("hook")
    \/ DbOpen("other")
    \/ ExecCount
    \/ ExecSeed
    \/ HookMigrate
    \/ ExecMigrate
    \/ HookGetAll
    \/ ExecGetAll
    \/ ExecPending
    \/ ReloadPage

SpecLoad == Init /\ [][NextLoad]_vars

\* Every storage call returns: a step that can be taken is taken
SpecLoadFair == SpecLoad /\ WF_vars(LoadProgress)

\* The hook's load in steps, and the operations the loaded page offers
NextGate ==
    \/ HookInit
    \/ DbOpen("hook")
    \/ ExecCount
    \/ ExecSeed
    \/ HookMigrate
    \/ ExecMigrate
    \/ HookGetAll
    \/ ExecGetAll
    \/ ExecPending
    \/ ReloadPage
    \/ SaveGuest
    \/ CreateGuest
    \/ ImportJSON
    \/ ExportJSON

SpecGate == Init /\ [][NextGate]_vars

-----------------------------------------------------------------------------
(* Calls of the loaded session that overlap.  saveGuest, createGuest and   *)
(* importJSON are async: each storage call and each half of refreshGuests  *)
(* is a step, and steps of different calls interleave.  inflight holds the *)
(* calls that have not returned (at most MaxCalls).                        *)

\* The backup files of one record that importJSON accepts
OverlapFiles ==
    {f \in CraftedFiles :
        f.text = "json" /\ ValidFormat(f.data) /\ Len(f.data.guests) = 1}

Call(kind, pc, id, arg) ==
    [kind |-> kind, pc |-> pc, id |-> id, arg |-> arg, existing |-> NoArg]

\* The call returns
Returned(calls, k) == SubSeq(calls, 1, k - 1) \o SubSeq(calls, k + 1, Len(calls))

\* The operator saves the form while other calls are running
StartSave ==
    /\ isLoaded
    /\ nops < MaxOps
    /\ Len(inflight) < MaxCalls
    /\ \E i \in 1..Len(guests), edit \in FormEdits :
         /\ guests[i].id \in EditedIds
         /\ LET guest    == toGuestRecord(guests[i])
                formData == Merge(InitialFormData(guest), edit)
                updates  == saveGuestUpdates(performSave(guest, formData))
            IN  /\ calculatedRiel(formData) >= 0
                /\ inflight' = Append(inflight, Call("save", "get", guest.id, updates))
    /\ nops' = nops + 1
    /\ UNCHANGED <<store, dbInstance, legacy, now, guests, isOnline, syncState,
                   isLoaded, backupFile, created, last, load>>

StartCreate ==
    /\ isLoaded
    /\ nops < MaxOps
    /\ Len(inflight) < MaxCalls
    /\ \E g \in NewGuests, rnd \in RandSuffix :
         inflight' = Append(inflight, Call("create", "create", "", <<g[1], g[2], rnd>>))
    /\ nops' = nops + 1
    /\ UNCHANGED <<store, dbInstance, legacy, now, guests, isOnline, syncState,
                   isLoaded, backupFile, created, last, load>>

StartImport ==
    /\ isLoaded
    /\ nops < MaxOps
    /\ Len(inflight) < MaxCalls
    /\ \E file \in OverlapFiles :
         inflight' = Append(inflight, Call("import", "import", "", file))
    /\ nops' = nops + 1
    /\ UNCHANGED <<store, dbInstance, legacy, now, guests, isOnline, syncState,
                   isLoaded, backupFile, created, last, load>>

\* saveGuestRecord: existing = await db.get(STORE_NAME, id)
StepGet(k) ==
    /\ k \in DOMAIN inflight
    /\ inflight[k].pc = "get"
    /\ inflight' = IF Has(store, inflight[k].id)
                   THEN [inflight EXCEPT ![k].pc = "put",
                                         ![k].existing = store[inflight[k].id]]
                   ELSE Returned(inflight, k)
    /\ UNCHANGED <<store, dbInstance, legacy, now, guests, isOnline, syncState,
                   isLoaded, backupFile, created, last, nops, load>>

StepPutNoRefresh(k) ==
    /\ k \in DOMAIN inflight
    /\ inflight[k].pc = "put"
    /\ LET c == inflight[k]
           r == saveGuestRecord(c.id :> c.existing, c.id, c.arg, now)
       IN  /\ store' = Put(store, r.rec)
           /\ created' = Track(created, store')
           /\ last' = Op("put", c.id, c.arg, store, TRUE,
                         [stale |-> ~Has(store, c.id) \/ store[c.id] # c.existing],
                         << >>)
    /\ inflight' = Returned(inflight, k)
    /\ UNCHANGED <<dbInstance, legacy, now, guests, isOnline, syncState,
                   isLoaded, backupFile, nops, load>>

\* saveGuestRecord: await db.put(STORE_NAME, updated), the record built from
\* the copy read before
StepPut(k) ==
    /\ k \in DOMAIN inflight
    /\ inflight[k].pc = "put"
    /\ LET c == inflight[k]
           r == saveGuestRecord(c.id :> c.existing, c.id, c.arg, now)
       IN  /\ store' = Put(store, r.rec)
           /\ created' = Track(created, store')
           /\ last' = Op("put", c.id, c.arg, store, TRUE,
                         [stale |-> ~Has(store, c.id) \/ store[c.id] # c.existing],
                         << >>)
    /\ inflight' = [inflight EXCEPT ![k].pc = "getAll"]
    /\ UNCHANGED <<dbInstance, legacy, now, guests, isOnline, syncState,
                   isLoaded, backupFile, nops, load>>

\* createCustomGuest: await db.put(STORE_NAME, newGuest)
StepCreate(k) ==
    /\ k \in DOMAIN inflight
    /\ inflight[k].pc = "create"
    /\ LET c == inflight[k]
           r == createCustomGuest(store, c.arg[1], c.arg[2], now, c.arg[3])
       IN  /\ store' = r.store
           /\ created' = Track(created, store')
           /\ last' = Op("put", r.rec.id, c.arg, store, TRUE, [stale |-> FALSE], << >>)
    /\ inflight' = [inflight EXCEPT ![k].pc = "getAll"]
    /\ UNCHANGED <<dbInstance, legacy, now, guests, isOnline, syncState,
                   isLoaded, backupFile, nops, load>>

\* importBackup: one readwrite transaction
StepImport(k) ==
    /\ k \in DOMAIN inflight
    /\ inflight[k].pc = "import"
    /\ LET c == inflight[k]
           r == importJSON(store, c.arg)
       IN  /\ store' = r.r.store
           /\ created' = TrackLog(created, r.r.log, 1)
           /\ last' = Op("put", "", c.arg, store, r.success, [stale |-> FALSE], r.r.log)
           /\ inflight' = IF r.success THEN [inflight EXCEPT ![k].pc = "getAll"]
                          ELSE Returned(inflight, k)
    /\ UNCHANGED <<dbInstance, legacy, now, guests, isOnline, syncState,
                   isLoaded, backupFile, nops, load>>

\* refreshGuests: setGuests(await getAllGuests())
StepGetAll(k) ==
    /\ k \in DOMAIN inflight
    /\ inflight[k].pc = "getAll"
    /\ guests' = GetAllGuests(store)
    /\ inflight' = [inflight EXCEPT ![k].pc = "count"]
    /\ UNCHANGED <<store, dbInstance, legacy, now, isOnline, syncState,
                   isLoaded, backupFile, created, last, nops, load>>

\* refreshGuests: the pending count, setSyncState; the call returns
StepCount(k) ==
    /\ k \in DOMAIN inflight
    /\ inflight[k].pc = "count"
    /\ syncState' = [syncState EXCEPT !.pendingCount = getPendingSyncCount(store)]
    /\ inflight' = Returned(inflight, k)
    /\ UNCHANGED <<store, dbInstance, legacy, now, guests, isOnline,
                   isLoaded, backupFile, created, last, nops, load>>

NextOverlap ==
    \/ InitSession
    \/ StartSave
    \/ StartCreate
    \/ StartImport
    \/ \E k \in 1..MaxCalls : StepGet(k)
    \/ \E k \in 1..MaxCalls : StepPut(k)
    \/ \E k \in 1..MaxCalls : StepCreate(k)
    \/ \E k \in 1..MaxCalls : StepImport(k)
    \/ \E k \in 1..MaxCalls : StepGetAll(k)
    \/ \E k \in 1..MaxCalls : StepCount(k)

\* The session starts without a legacy snapshot
InitOverlap == Init /\ legacy = NoItem

SpecOverlap == InitOverlap /\ [][NextOverlap]_vars

\* Online and offline events arrive at any time, also between the steps of
\* calls in flight
NextEvents ==
    \/ NextOverlap
    \/ HandleOnline
    \/ HandleOffline

SpecEvents == InitOverlap /\ [][NextEvents]_vars

-----------------------------------------------------------------------------
(* The create dialog of the guest list, and the save that follows it.      *)

\* The id the form reads from an object that has no id field
Undefined == "undefined"

\* GuestList.handleCreateGuest: onSelect(onCreateGuest(name, side)).
\* onCreateGuest is Index.handleCreateGuest, an async function: what is
\* selected is its promise, not the record the promise resolves to
handleCreateGuestSelected(newGuest) == [promise |-> newGuest]

\* The guest the form reads from the selected object: every GuestRecord
\* field of a promise is undefined
SelectedAsGuest(sel) ==
    IF "promise" \in DOMAIN sel
    THEN [id |-> Undefined, name |-> NullStr, side |-> NullStr,
          displayName |-> NullStr, amountRiel |-> NullNum,
          paymentType |-> NullStr, bank |-> << >>, note |-> NullStr,
          updatedAt |-> << >>]
    ELSE sel

\* The operator confirms the create dialog
CreateFromDialog ==
    /\ isLoaded
    /\ nops < MaxOps
    /\ \E g \in NewGuests, rnd \in RandSuffix :
         LET s0 == initDB(store, dbInstance, now)
             r  == createCustomGuest(s0, g[1], g[2], now, rnd)
         IN  /\ store' = r.store
             /\ created' = Track(created, r.store)
             /\ last' = Op("createDialog", r.rec.id, NoArg, store, TRUE,
                           [rec |-> r.rec,
                            selected |-> handleCreateGuestSelected(toGuestRecord(r.rec))],
                           << >>)
             /\ Refresh(r.store)
    /\ nops' = nops + 1
    /\ dbInstance' = TRUE
    /\ UNCHANGED <<legacy, now, isOnline, isLoaded, backupFile, load, inflight>>

\* The operator fills and saves the form opened by the create dialog
SaveCreated ==
    /\ isLoaded
    /\ nops < MaxOps
    /\ last.op = "createDialog"
    /\ \E edit \in FormEdits :
         LET guest    == SelectedAsGuest(last.out.selected)
             formData == Merge(InitialFormData(guest), edit)
             updates  == saveGuestUpdates(performSave(guest, formData))
             r        == saveGuestRecord(store, guest.id, updates, now)
         IN  /\ calculatedRiel(formData) >= 0
             /\ store' = r.store
             /\ created' = Track(created, r.store)
             /\ last' = Merge(Op("saveCreated", last.id,
                                 [opened |-> guest, edit |-> edit, updates |-> updates],
                                 store, r.ok, [rec |-> last.out.rec], << >>),
                              [toast |-> performSaveToast])
             /\ IF r.ok THEN Refresh(r.store)
                ELSE UNCHANGED <<guests, syncState>>
    /\ nops' = nops + 1
    /\ UNCHANGED <<dbInstance, legacy, now, isOnline, isLoaded, backupFile,
                   load, inflight>>

NextCreate ==
    \/ Tick
    \/ InitSession
    \/ CreateFromDialog
    \/ SaveCreated

SpecCreate == Init /\ [][NextCreate]_vars

\* exportCSV: the bank column of a row, g.bank?.type ?? ""
exportCSVBank(g) == IF g.bank = << >> THEN "" ELSE g.bank[1]

-----------------------------------------------------------------------------
(* importBackup over pairs of snapshots: the snapshots hold up to          *)
(* MaxEntries records, drawn from records of G1 with two contents and two  *)
(* times and a record of another guest.                                    *)

ImportTimes == {0, 1}

ImportRecords ==
    { Merge(FullRecord("G1", "Ann", "groom", u, "synced"), [note |-> n]) :
        u \in ImportTimes, n \in {"a", "b"} }
    \cup { FullRecord(OtherId, "Xen", "bride", 1, "local") }

RECURSIVE SeqsUpTo(_, _)
SeqsUpTo(S, n) ==
    IF n = 0 THEN { << >> }
    ELSE LET shorter == SeqsUpTo(S, n - 1)
         IN  shorter \cup { Append(q, x) : q \in shorter, x \in S }

\* The well-formed snapshots: version, and a non-empty list of records
ImportSnapshots == { [version |-> 1, guests |-> gs] :
                        gs \in SeqsUpTo(ImportRecords, MaxEntries) \ { << >> } }

ImportStores ==
    { EmptyStore,
      seedInitialGuests(EmptyStore, 0),
      Put(seedInitialGuests(EmptyStore, 0),
          Merge(FullRecord("G1", "Ann", "groom", 1, "pending"), [note |-> "s"])) }

InitImport ==
    /\ store \in ImportStores
    /\ legacy = NoItem
    /\ dbInstance = TRUE
    /\ now = 0
    /\ guests = GetAllGuests(store)
    /\ isOnline = TRUE
    /\ syncState = [InitialSyncState(TRUE) EXCEPT
                      !.pendingCount = getPendingSyncCount(store)]
    /\ isLoaded = TRUE
    /\ backupFile = NoFile
    /\ created = EmptyStore
    /\ last = Op("none", "", NoArg, EmptyStore, TRUE, NoArg, << >>)
    /\ nops = 0
    /\ load = NoLoad
    /\ inflight = << >>

\* Two snapshots imported one after the other; out.ba is the store the other
\* order gives
ImportTwo ==
    /\ nops = 0
    /\ \E a \in ImportSnapshots, b \in ImportSnapshots :
         LET ab == importBackup(importBackup(store, a).store, b)
             ba == importBackup(importBackup(store, b).store, a)
         IN  /\ store' = ab.store
             /\ last' = Op("importTwo", "", [a |-> a, b |-> b], store, ~ab.threw,
                           [ab |-> ab.store, ba |-> ba.store], << >>)
             /\ Refresh(ab.store)
    /\ nops' = nops + 1
    /\ UNCHANGED <<dbInstance, legacy, now, isOnline, isLoaded, backupFile,
                   created, load, inflight>>

\* The same snapshot imported twice in a row
ImportTwice ==
    /\ nops = 0
    /\ \E a \in ImportSnapshots :
         LET first  == importBackup(store, a)
             second == importBackup(first.store, a)
         IN  /\ store' = second.store
             /\ last' = Op("importTwice", "", a, store, ~second.threw,
                           [first |-> [store |-> first.store, imported |-> first.imported],
                            second |-> [store |-> second.store,
                                        imported |-> second.imported,
                                        skipped |-> second.skipped]],
                           << >>)
             /\ Refresh(second.store)
    /\ nops' = nops + 1
    /\ UNCHANGED <<dbInstance, legacy, now, isOnline, isLoaded, backupFile,
                   created, load, inflight>>

NextImport ==
    \/ ImportTwo
    \/ ImportTwice

SpecImport == InitImport /\ [][NextImport]_vars

\* Everything the session issues: the load in steps (storage faults
\* included), the operations of the loaded page, and connectivity events
NextSession ==
    \/ NextGate
    \/ HandleOnline
    \/ HandleOffline

SpecSession == InitOnline /\ [][NextSession]_vars

-----------------------------------------------------------------------------
(* totals over lists of contributors: every number of cash and of bank     *)
(* contributors up to MaxGuests each.                                      *)

\* A cached list of c cash and b bank contributors
GuestsOf(c, b) ==
    [i \in 1..(c + b) |->
        Merge(SeedRecord([id |-> ToString(i), name |-> "N", side |-> "groom"], 0),
              [amountRiel |-> 1,
               paymentType |-> IF i <= c THEN "cash" ELSE "bank"])]

InitPercent ==
    /\ now = 0
    /\ \E c \in 0..MaxGuests, b \in 0..MaxGuests :
         /\ guests = GuestsOf(c, b)
         /\ last = Op("counts", "", [cashCount |-> c, bankCount |-> b], EmptyStore,
                      TRUE, NoArg, << >>)
    /\ store = EmptyStore
    /\ legacy = NoItem
    /\ dbInstance = TRUE
    /\ isOnline = TRUE
    /\ syncState = InitialSyncState(TRUE)
    /\ isLoaded = TRUE
    /\ backupFile = NoFile
    /\ created = EmptyStore
    /\ nops = 0
    /\ load = NoLoad
    /\ inflight = << >>

\* The page computes the totals of the cached list
ComputeTotals ==
    /\ last.op = "counts"
    /\ last' = Op("totals", "", last.arg, store, TRUE, totals(guests), << >>)
    /\ UNCHANGED <<store, dbInstance, legacy, now, guests, isOnline, syncState,
                   isLoaded, backupFile, created, nops, load, inflight>>

NextPercent == ComputeTotals

SpecPercent == InitPercent /\ [][NextPercent]_vars

-----------------------------------------------------------------------------
(* Migration over the legacy records a snapshot can hold: the first load   *)
(* of a session whose store and snapshot are drawn from the sets below.    *)

\* The shapes of a legacy record ("" and << >> stand for an absent field)
LegacyRecords ==
    [displayName : {"", "Ann K"}, amountRiel : {NullNum, 5},
     paymentType : {"", "cash", "bank"},
     bank : {<< >>, <<"ABA", "ref">>, <<"ABA", "">>},
     note : {"", "legacy"}, updatedAt : {<< >>, <<0>>}]

LegacySnapshots ==
    { [LegacyItem EXCEPT !.records = [k \in {"G1", LegacyId} |-> r]] :
        r \in LegacyRecords }

\* The stores a load can find: never opened; G1 saved later than the
\* snapshot was written; the legacy custom guest already stored and synced
MigrateStores ==
    LET seeded == seedInitialGuests(EmptyStore, 0)
    IN  { EmptyStore,
          saveGuestRecord(seeded, "G1",
                          [amountRiel |-> 9, paymentType |-> "cash", note |-> "kept"],
                          MaxTime).store,
          Put(seeded, FullRecord(LegacyId, "Eve", "bride", MaxTime, "synced")) }

InitMigrate ==
    /\ store \in MigrateStores
    /\ legacy \in LegacySnapshots
    /\ dbInstance = FALSE
    /\ now = 0
    /\ guests = << >>
    /\ isOnline = TRUE
    /\ syncState = InitialSyncState(TRUE)
    /\ isLoaded = FALSE
    /\ backupFile = NoFile
    /\ created = EmptyStore
    /\ last = Op("none", "", NoArg, EmptyStore, TRUE, NoArg, << >>)
    /\ nops = 0
    /\ load = NoLoad
    /\ inflight = << >>

NextMigrate ==
    \/ Tick
    \/ InitSession

SpecMigrate == InitMigrate /\ [][NextMigrate]_vars

-----------------------------------------------------------------------------
(* Properties *)

IsSave == last.op \in {"save", "saveGuest"}

IsImport == last.op = "import"

\* The imported file is the file exportJSON wrote from the store as it was
\* when the import began
IsRoundTrip ==
    /\ IsImport
    /\ last.arg = backupFile
    /\ backupFile = JsonStringify(exportBackup(last.pre))

\* The record fields other than syncStatus
OtherFields(r) == DOMAIN r \ {"syncStatus"}

SameButStatus(a, b) ==
    /\ DOMAIN a = DOMAIN b
    /\ \A f \in OtherFields(a) : a[f] = b[f]

C2_SaveForcesPendingAndTime ==
    (IsSave /\ last.ok) =>
        /\ Has(store, last.id)
        /\ store[last.id].syncStatus = "pending"
        /\ store[last.id].updatedAt = last.at
        /\ last.out.syncStatus = "pending"
        /\ last.out.updatedAt = last.at

C2_Witness ==
    /\ last.op = "save"
    /\ last.ok
    /\ last.pre[last.id].syncStatus = "error"
    /\ "syncStatus" \in DOMAIN last.arg
    /\ last.arg.syncStatus = "synced"
    /\ last.arg.updatedAt # last.at

\* The number of entries of the last import's log with the given outcome
CountOutcome(o) == Cardinality({i \in 1..Len(last.log) : last.log[i].outcome = o})

\* C3: during importBackup an incoming record whose id is already in the store
\* overwrites the stored record iff its updatedAt is strictly greater than the
\* stored one; otherwise the stored record (syncStatus included) is unchanged
\* and the entry is counted as skipped.
C3_ImportConflictRule ==
    IsImport =>
        /\ \A i \in 1..Len(last.log) :
             LET e == last.log[i]
             IN  (ValidKey(e.guest) /\ Has(e.pre, e.guest.id)) =>
                    IF e.guest.updatedAt > e.pre[e.guest.id].updatedAt
                    THEN /\ e.outcome = "imported"
                         /\ SameButStatus(e.post[e.guest.id], e.guest)
                    ELSE /\ e.outcome = "skipped"
                         /\ e.post = e.pre
        /\ last.out.skipped = CountOutcome("skipped")

C3_Witness ==
    /\ IsImport
    /\ \E i \in 1..Len(last.log) :
         LET e == last.log[i]
         IN  /\ ValidKey(e.guest)
             /\ Has(e.pre, e.guest.id)
             /\ e.guest.updatedAt = e.pre[e.guest.id].updatedAt
             /\ e.guest # e.pre[e.guest.id]
             /\ e.pre[e.guest.id].syncStatus = "local"
             /\ store[e.guest.id] = e.pre[e.guest.id]
    /\ last.out.skipped = 1

\* C4 as claimed: after exportBackup followed by importBackup of that snapshot
\* into the same, otherwise untouched store, every record has syncStatus
\* pending.
C4_RoundTripAllPending ==
    IsRoundTrip => \A k \in DOMAIN store : store[k].syncStatus = "pending"

\* C4 as amended: after exportBackup followed by importBackup of that
\* snapshot into the same, otherwise untouched store, every entry is skipped
\* and every record has the syncStatus it had before.
C4_RoundTripKeepsStatus ==
    IsRoundTrip =>
        /\ last.ok
        /\ last.out.imported = 0
        /\ last.out.skipped = Cardinality(DOMAIN last.pre)
        /\ \A k \in DOMAIN last.pre :
             Has(store, k) /\ store[k].syncStatus = last.pre[k].syncStatus

C4_Witness ==
    /\ IsRoundTrip
    /\ \E k \in DOMAIN store : store[k].syncStatus = "local"
    /\ \E k \in DOMAIN store : store[k].syncStatus = "pending"

\* C5: exportBackup followed by importBackup of that snapshot into the same,
\* otherwise untouched store adds no record, removes no record, and leaves
\* every field other than syncStatus of every record unchanged.
C5_RoundTripKeepsFields ==
    IsRoundTrip =>
        /\ DOMAIN store = DOMAIN last.pre
        /\ \A k \in DOMAIN store : SameButStatus(store[k], last.pre[k])

C5_Witness ==
    /\ IsRoundTrip
    /\ last.ok
    /\ Cardinality(DOMAIN last.pre) >= 2
    /\ \E k \in DOMAIN last.pre :
         last.pre[k].amountRiel > 0 /\ last.pre[k].displayName # last.pre[k].name

\* C6: during importBackup an incoming record whose id is not in the store is
\* inserted and counted as imported, and every record an import writes is
\* stored with syncStatus pending, whatever syncStatus the incoming record
\* carried, with all its other fields equal to the incoming record's.
C6_ImportInsertsPending ==
    IsImport =>
        /\ \A i \in 1..Len(last.log) :
             LET e == last.log[i]
             IN  /\ (ValidKey(e.guest) /\ ~Has(e.pre, e.guest.id)) =>
                        (e.outcome = "imported" /\ Has(e.post, e.guest.id))
                 /\ DOMAIN e.pre \subseteq DOMAIN e.post
                 /\ \A k \in DOMAIN e.post :
                        (~Has(e.pre, k) \/ e.post[k] # e.pre[k]) =>
                            /\ ValidKey(e.guest)
                            /\ k = e.guest.id
                            /\ e.outcome = "imported"
                            /\ e.post[k].syncStatus = "pending"
                            /\ DOMAIN e.post[k] = DOMAIN e.guest \cup {"syncStatus"}
                            /\ \A f \in OtherFields(e.guest) : e.post[k][f] = e.guest[f]
        /\ last.out.imported = CountOutcome("imported")

C6_Witness ==
    /\ IsImport
    /\ \E i \in 1..Len(last.log) :
         LET e == last.log[i]
         IN  /\ ValidKey(e.guest)
             /\ ~Has(e.pre, e.guest.id)
             /\ e.guest.syncStatus = "synced"
             /\ Has(store, e.guest.id)
             /\ store[e.guest.id].syncStatus = "pending"
    /\ last.out.imported = 2

\* An entry of data.guests that cannot be processed: not a record, or a
\* record without a usable id
Unprocessable(guest) == IsJsNull(guest) \/ ~ValidKey(guest)

\* The file passes importJSON's format check
WellFormedFile(file) ==
    /\ file.text = "json"
    /\ "version" \in DOMAIN file.data
    /\ file.data.version # 0
    /\ "guests" \in DOMAIN file.data

\* C7 as claimed: an entry of an imported snapshot that cannot be processed is
\* not written, the error count grows by one for it, every other entry is
\* still processed, and importBackup returns its counts instead of failing.
C7_BadEntryCountedOthersProcessed ==
    (IsImport /\ WellFormedFile(last.arg)) =>
        LET gs == last.arg.data.guests
        IN  /\ last.ok
            /\ Len(last.log) = Len(gs)
            /\ last.out.errors = Cardinality({i \in 1..Len(gs) : Unprocessable(gs[i])})
            /\ \A i \in 1..Len(last.log) :
                 Unprocessable(gs[i]) => last.log[i].post = last.log[i].pre
            /\ \A i \in 1..Len(last.log) :
                 ~Unprocessable(gs[i]) => last.log[i].outcome \in {"imported", "skipped"}

\* C8: an import of a snapshot that lacks its version or its list of records
\* fails as a whole and is reported as a failure, and no stored record is
\* written, added or changed by it.
C8_MalformedBackupRejected ==
    (/\ IsImport
     /\ last.arg.text = "json"
     /\ ("version" \notin DOMAIN last.arg.data \/ "guests" \notin DOMAIN last.arg.data)) =>
        /\ ~last.ok
        /\ store = last.pre
        /\ Len(last.log) = 0

C8_Witness ==
    /\ IsImport
    /\ "version" \notin DOMAIN last.arg.data
    /\ "guests" \in DOMAIN last.arg.data
    /\ \E i \in 1..Len(last.arg.data.guests) :
         LET g == last.arg.data.guests[i]
         IN  Has(last.pre, g.id) /\ g.updatedAt > last.pre[g.id].updatedAt
    /\ ~last.ok
    /\ store = last.pre

\* C9 as claimed: createCustomGuest stores its new record under an id that
\* differs from the id of every record already in the store, so it never
\* overwrites a record and the number of records grows by exactly one.
C9_CreateIdIsFresh ==
    last.op = "create" =>
        /\ ~Has(last.pre, last.id)
        /\ Cardinality(DOMAIN store) = Cardinality(DOMAIN last.pre) + 1

\* C10 as claimed: after any sequence of store operations the name and the
\* side of every record equal the values the record was first created with.
C10_NameAndSideImmutable ==
    \A k \in DOMAIN store :
        /\ store[k].name = created[k].name
        /\ store[k].side = created[k].side

\* C11: when the operator opens a stored guest in the form, changes only the
\* display name and saves, the stored amount, payment type, bank type, bank
\* reference and note are the same after the save as before.
C11_NameEditKeepsOtherFields ==
    (/\ last.op = "saveGuest"
     /\ last.ok
     /\ DOMAIN last.arg.edit = {"displayName"}
     /\ Has(last.pre, last.id)
     /\ last.arg.opened = last.pre[last.id]) =>
        \A f \in {"name", "amountRiel", "paymentType", "bankType", "bankRef", "note"} :
            store[last.id][f] = last.pre[last.id][f]

\* The updates a save handed to saveGuestRecord
SaveUpdates == IF last.op = "saveGuest" THEN last.arg.updates ELSE last.arg

\* C12: a successful saveGuestRecord(id, updates) changes only the record
\* with that id: it becomes the old record with exactly the fields named in
\* updates replaced (plus updatedAt and syncStatus), its id is unchanged even
\* if updates carries another id, the returned record equals the stored one,
\* and every other record is unchanged.
C12_SaveFrame ==
    (IsSave /\ last.ok) =>
        LET old == last.pre[last.id]
            new == store[last.id]
            u   == SaveUpdates
        IN  /\ DOMAIN store = DOMAIN last.pre
            /\ DOMAIN new = DOMAIN old \cup DOMAIN u
            /\ new.id = old.id
            /\ new.id = last.id
            /\ \A f \in DOMAIN new \ {"id", "updatedAt", "syncStatus"} :
                  new[f] = IF f \in DOMAIN u THEN u[f] ELSE old[f]
            /\ last.out = new
            /\ \A k \in DOMAIN store \ {last.id} : store[k] = last.pre[k]

C12_Witness ==
    /\ IsSave
    /\ last.ok
    /\ "id" \in DOMAIN SaveUpdates
    /\ SaveUpdates.id # last.id
    /\ Cardinality(DOMAIN store) > 1

\* C13: in every reachable state of the store, every record with
\* paymentType = cash has bankType = null and bankRef = null.
C13_CashHasNoBankFields ==
    \A k \in DOMAIN store :
        store[k].paymentType = "cash" =>
            (store[k].bankType = NullStr /\ store[k].bankRef = NullStr)

\* The record an operation wrote under key k: one that is new or differs from
\* the one stored before
Written(k) == k \notin DOMAIN last.pre \/ store[k] # last.pre[k]

\* C14, as stated: every operation that changes a stored record sets that
\* record's updatedAt to the current time, and no read changes a record.
C14_EveryWriteStampsNow ==
    /\ last.op \in {"save", "saveGuest", "create", "markSynced", "markError",
                    "import", "init"} =>
            \A k \in DOMAIN store : Written(k) => store[k].updatedAt = last.at
    /\ last.op = "export" => store = last.pre

\* C14, amended: save and createCustom set the record's updatedAt to the
\* current time; markSynced and markError leave updatedAt as it was; an import
\* overwrite stores the incoming record's updatedAt; the migration overlay
\* stores the legacy record's updatedAt when it has one and the current time
\* otherwise; export changes no record.
C14_UpdatedAtRule ==
    /\ (IsSave /\ last.ok) => store[last.id].updatedAt = last.at
    /\ last.op = "create" => store[last.id].updatedAt = last.at
    /\ last.op \in {"markSynced", "markError"} =>
            /\ DOMAIN store = DOMAIN last.pre
            /\ \A k \in DOMAIN store : store[k].updatedAt = last.pre[k].updatedAt
    /\ IsImport =>
            \A i \in 1..Len(last.log) :
                LET e == last.log[i]
                IN  /\ e.outcome = "imported" =>
                            e.post[e.guest.id].updatedAt = e.guest.updatedAt
                    /\ e.outcome # "imported" => e.post = e.pre
    /\ (last.op = "init" /\ last.out.migrated) =>
            \A k \in DOMAIN last.arg.records \cap DOMAIN store :
                LET r == last.arg.records[k]
                IN  store[k].updatedAt =
                        IF Len(r.updatedAt) > 0 THEN IsoToMs(r.updatedAt) ELSE last.at
    /\ last.op = "export" => store = last.pre

C14_Witness ==
    /\ last.op = "markSynced"
    /\ \E k \in last.arg.ids \cap DOMAIN last.pre :
          /\ store[k] # last.pre[k]
          /\ store[k].updatedAt # last.at

\* C15: markAsSynced(ids) sets syncStatus = synced and lastSyncedAt = now on
\* every listed record that exists, and no other operation leaves a record
\* it writes in status synced.
C15_OnlyMarkSyncedGivesSynced ==
    /\ last.op = "markSynced" =>
            /\ DOMAIN store = DOMAIN last.pre
            /\ \A k \in last.arg.ids \cap DOMAIN last.pre :
                  /\ store[k].syncStatus = "synced"
                  /\ store[k].lastSyncedAt = last.at
    /\ last.op # "markSynced" =>
            \A k \in DOMAIN store : Written(k) => store[k].syncStatus # "synced"

C15_Witness ==
    /\ last.op = "markSynced"
    /\ \E k \in last.arg.ids \cap DOMAIN last.pre :
          /\ last.pre[k].syncStatus # "synced"
          /\ last.pre[k].lastSyncedAt # last.at
    /\ last.arg.ids \ DOMAIN last.pre # {}

\* C16: markAsError(id) on an existing record changes only that record's
\* syncStatus (to error); on an id that is not in the store it changes
\* nothing and creates no record.
C16_MarkErrorFrame ==
    last.op = "markError" =>
        IF Has(last.pre, last.id)
        THEN /\ DOMAIN store = DOMAIN last.pre
             /\ store[last.id].syncStatus = "error"
             /\ DOMAIN store[last.id] = DOMAIN last.pre[last.id]
             /\ \A f \in DOMAIN store[last.id] \ {"syncStatus"} :
                   store[last.id][f] = last.pre[last.id][f]
             /\ \A k \in DOMAIN store \ {last.id} : store[k] = last.pre[k]
        ELSE store = last.pre

C16_Witness ==
    /\ last.op = "markError"
    /\ Has(last.pre, last.id)
    /\ last.pre[last.id].syncStatus # "error"
    /\ last.pre[last.id].lastSyncedAt # NullNum
    /\ last.pre[last.id].updatedAt # last.at

\* The last operation ended with refreshGuests
Refreshed ==
    /\ last.op \in {"init", "saveGuest", "create", "import"}
    /\ last.ok
    /\ isLoaded

CountStatus(s, statuses) ==
    Cardinality({k \in DOMAIN s : s[k].syncStatus \in statuses})

\* C17: whenever the session has finished refreshing after a store change,
\* syncState.errorCount equals the number of stored records whose syncStatus
\* is error.
C17_ErrorCountTracksStore ==
    Refreshed => syncState.errorCount = CountStatus(store, {"error"})

\* C18: getPendingSyncCount returns exactly the number of stored records whose
\* syncStatus is pending or local; exportBackup's metadata.pendingSync is that
\* same number and metadata.totalRecords is the number of records exported;
\* neither operation changes the store.
C18_PendingCounts ==
    /\ getPendingSyncCount(store) = CountStatus(store, {"pending", "local"})
    /\ Refreshed => syncState.pendingCount = CountStatus(store, {"pending", "local"})
    /\ last.op = "export" =>
            /\ last.out.metadata.pendingSync
                    = CountStatus(last.pre, {"pending", "local"})
            /\ last.out.metadata.pendingSync = getPendingSyncCount(last.pre)
            /\ last.out.metadata.totalRecords = Len(last.out.guests)
            /\ Len(last.out.guests) = Cardinality(DOMAIN last.pre)
            /\ store = last.pre

C18_Witness ==
    /\ last.op = "export"
    /\ \E k \in DOMAIN store : store[k].syncStatus = "pending"
    /\ \E k \in DOMAIN store : store[k].syncStatus = "local"
    /\ \E k \in DOMAIN store : store[k].syncStatus \in {"error", "synced"}

\* C19: for every combination of isOnline, errorCount, isSyncing and
\* pendingCount the indicator shows the first matching condition in the order
\* offline, error present, syncing, pending present, fully synced.
C19_StatusPrecedence ==
    last.op = "render" =>
        LET online == last.arg.isOnline
            st     == last.arg.syncState
            shown  == last.out.icon
        IN  /\ shown = "WifiOff" <=> ~online
            /\ shown = "CloudOff" <=> (online /\ st.errorCount > 0)
            /\ shown = "Loader2" <=>
                    (online /\ st.errorCount = 0 /\ st.isSyncing)
            /\ shown = "Cloud" <=>
                    (online /\ st.errorCount = 0 /\ ~st.isSyncing
                        /\ st.pendingCount > 0)
            /\ shown = "Check" <=>
                    (online /\ st.errorCount = 0 /\ ~st.isSyncing
                        /\ st.pendingCount = 0)

C19_Witness ==
    /\ last.op = "render"
    /\ last.arg.isOnline
    /\ last.arg.syncState.errorCount > 0
    /\ last.arg.syncState.isSyncing
    /\ last.arg.syncState.pendingCount > 0
    /\ last.out.icon = "CloudOff"

InList(g, list) == \E j \in 1..Len(list) : list[j] = g

\* C20: the pending list and the recorded list are disjoint, every loaded
\* record is in exactly one of them, and a record is in the recorded list if
\* and only if its amount is greater than 0.
C20_ListsPartition ==
    \A i \in 1..Len(guests) :
        LET g == toGuestRecord(guests[i])
        IN  /\ InList(g, pendingGuests(guests)) # InList(g, recordedGuests(guests))
            /\ InList(g, recordedGuests(guests)) <=>
                    (g.amountRiel # NullNum /\ g.amountRiel > 0)

\* The positions of the records with amount > 0 and the given payment type
Contributors(gs, type) ==
    {i \in 1..Len(gs) : /\ gs[i].amountRiel # NullNum
                        /\ gs[i].amountRiel > 0
                        /\ gs[i].paymentType = type}

RECURSIVE SumAmounts(_, _)
SumAmounts(gs, is) ==
    IF is = {} THEN 0
    ELSE LET i == CHOOSE j \in is : TRUE
         IN  gs[i].amountRiel + SumAmounts(gs, is \ {i})

\* round(100 * count / n) as the nearest integer, by its defining inequality
IsRounded(p, count, n) == 2 * n * p <= 200 * count + n /\ 200 * count + n < 2 * n * (p + 1)

C22_SeedsOnlyWhenEmpty ==
    last.op = "init" =>
        IF last.pre = EmptyStore
        THEN last.out.afterInit = seedInitialGuests(EmptyStore, last.at)
        ELSE last.out.afterInit = last.pre

C22_Witness ==
    /\ last.op = "init"
    /\ Has(last.pre, "G1")
    /\ last.pre["G1"] # SeedRecord(InitialGuests[1], last.pre["G1"].updatedAt)
    /\ last.out.afterInit = last.pre

\* The step is the session's load (the only step that sets isLoaded)
LoadStep == ~isLoaded /\ isLoaded'

\* C23: after migrateFromLocalStorage has succeeded, the legacy snapshot is
\* removed; while it is absent it stays absent, and every later load's
\* migration returns false and changes no stored record.
C23_MigratesOnce ==
    [][ /\ (LoadStep /\ last'.out.migrated) => ~legacy'.present
        /\ ~legacy.present =>
              /\ ~legacy'.present
              /\ LoadStep => /\ ~last'.out.migrated
                             /\ store' = last'.out.afterInit ]_vars

C23_Witness ==
    /\ last.op = "init"
    /\ ~last.arg.present
    /\ ~last.out.migrated
    /\ Has(store, LegacyId)
    /\ store["G1"].note = "legacy"
    /\ store["G1"].displayName = "Annie"

\* C25: no operation other than clearAllData removes a record: every id in
\* the store before the operation is in the store after it.
C25_NoRecordRemoved ==
    last.op # "clear" => DOMAIN last.pre \subseteq DOMAIN store

C25_Witness ==
    /\ last.op = "import"
    /\ last.out.imported > 0
    /\ Cardinality(DOMAIN last.pre) > 2
    /\ DOMAIN store # DOMAIN last.pre

\* C26: a save that did not persist the record is never reported as a
\* success: no success confirmation is shown for it.
C26_FailedSaveNotConfirmed ==
    (last.op = "saveGuest" /\ ~last.ok) => last.toast # "success"


C27_SeededOnce ==
    /\ load.seedings <= 1
    /\ (last.op = "migrate" /\ last.ok) =>
          \A id \in DOMAIN last.out.post :
              id \in DOMAIN store /\ store[id] = last.out.post[id]


\* C29: isLoaded is false while initDB (seeding included) or
\* migrateFromLocalStorage of the load has not finished, and a save, create,
\* import or export is issued only when isLoaded is true
C29_LoadedGate ==
    /\ [](load.hook \in InitStages => ~isLoaded)
    /\ [][(last' # last /\ last'.op \in {"saveGuest", "create", "import", "export"})
            => (isLoaded /\ load.hook \notin InitStages)]_vars

\* A save is issued after a load that seeded the store and migrated
C29_Witness ==
    /\ last.op = "saveGuest"
    /\ load.seedings > 0
    /\ isLoaded
    /\ ~legacy.present

\* C30: when every storage call returns, isLoaded becomes true; after a
\* failed initialization isLoaded is true and the record list is empty,
\* unless the call that failed is the pending count, made after the list
\* was set
C30_LoadEnds ==
    /\ ~isLoaded ~> isLoaded
    /\ [](load.failed # "" =>
            /\ isLoaded
            /\ (guests = << >> \/ load.failed = "count"))

\* The pending count fails after the list has been loaded
C30_Witness ==
    /\ load.failed = "count"
    /\ isLoaded
    /\ guests # << >>

\* C30 as stated: after a failed initialization the record list is empty
C30_FailedLoadEmpty ==
    /\ ~isLoaded ~> isLoaded
    /\ [](load.failed # "" => (isLoaded /\ guests = << >>))


\* C28: whenever no call of the session is in flight after save, create or
\* import calls, overlapping ones included, the cached record list equals
\* the store's contents and pendingCount is the number of stored records
\* with status pending or local
C28_CacheMatchesStore ==
    (isLoaded /\ inflight = << >>) =>
        /\ guests = GetAllGuests(store)
        /\ syncState.pendingCount = CountStatus(store, {"pending", "local"})

\* All calls have returned, and the last write was built from a copy that
\* another call had overwritten in between
C28_Witness ==
    /\ isLoaded
    /\ inflight = << >>
    /\ last.op = "put"
    /\ last.out.stale
    /\ nops >= 2


\* The text of a stored bank field (null is no text)
FieldText(x) == IF x = NullStr THEN "" ELSE x

C32_OnlineEventFrame ==
    /\ [](isOnline = syncState.isOnline)
    /\ [][isOnline' # isOnline =>
            /\ syncState' = [syncState EXCEPT !.isOnline = isOnline']
            /\ UNCHANGED <<store, guests, inflight, isLoaded, dbInstance, legacy>>]_vars

\* The session started online; the offline flags are set while a refresh
\* has set the list and not yet the pending count
C32_Witness ==
    /\ ~isOnline
    /\ ~syncState.isOnline
    /\ \E k \in DOMAIN inflight : inflight[k].pc = "count"
    /\ guests = GetAllGuests(store)
    /\ syncState.pendingCount # getPendingSyncCount(store)


\* C33: the guest selected and opened in the form after the create dialog is
\* the newly created record, its id is in the store, and the save that
\* follows updates that record
C33_CreatedGuestOpened ==
    /\ last.op = "createDialog" =>
          /\ last.out.selected = toGuestRecord(last.out.rec)
          /\ Has(store, last.id)
    /\ last.op = "saveCreated" =>
          /\ last.ok
          /\ last.arg.opened.id = last.id
          /\ store[last.id] # last.pre[last.id]


\* C34: a record saved through the form with paymentType bank and a bank
\* category is read back for the form and for the CSV export with that
\* category, with or without a reference text
C34_BankCategoryReadBack ==
    (/\ last.op = "saveGuest"
     /\ last.ok
     /\ last.arg.updates.paymentType = "bank"
     /\ last.arg.updates.bankType # NullStr)
    => LET g == toGuestRecord(store[last.id])
       IN  /\ InitialFormData(g).bankType = last.arg.updates.bankType
           /\ exportCSVBank(g) = last.arg.updates.bankType


\* C35: importing two snapshots into the same store gives the same final
\* store in either order
C35_ImportOrderIrrelevant ==
    last.op = "importTwo" => last.out.ab = last.out.ba

\* C36: importing the same well-formed snapshot twice in a row: the second
\* import reports imported = 0 and leaves every stored record unchanged,
\* also when the snapshot lists an id more than once
C36_ImportIdempotent ==
    last.op = "importTwice" =>
        /\ last.out.second.imported = 0
        /\ last.out.second.skipped = Len(last.arg.guests)
        /\ last.out.second.store = last.out.first.store
        /\ store = last.out.first.store

\* A snapshot that lists G1 twice, the later entry newer, was imported twice
C36_Witness ==
    /\ last.op = "importTwice"
    /\ Len(last.arg.guests) >= 2
    /\ last.arg.guests[1].id = last.arg.guests[2].id
    /\ last.arg.guests[1].updatedAt < last.arg.guests[2].updatedAt
    /\ last.out.first.imported = 2


\* C37: in every state the session reaches, every stored record has status
\* local or pending, the pending count of the store is the number of its
\* records, and the indicator of the loaded page does not show the synced
\* state while the store holds a record
C37_NeverShowsSynced ==
    /\ \A id \in DOMAIN store : store[id].syncStatus \in {"local", "pending"}
    /\ getPendingSyncCount(store) = Cardinality(DOMAIN store)
    /\ (isLoaded /\ DOMAIN store # {}) =>
          getStatus(syncState, isOnline).icon # "Check"


\* C38: a record with status local is an untouched seeded record, and a
\* record whose status is not local does not become local again: a record
\* is local after a step only if it was local before, or the store was
\* empty and has been seeded
C38_LocalOnlyFromSeeding ==
    /\ [](\A id \in DOMAIN store :
            store[id].syncStatus = "local" =>
                /\ ~store[id].isCustomGuest
                /\ store[id].amountRiel = NullNum
                /\ store[id].lastSyncedAt = NullNum
                /\ \E i \in 1..Len(InitialGuests) :
                      store[id] = SeedRecord(InitialGuests[i], store[id].updatedAt))
    /\ [][\A id \in DOMAIN store' :
            store'[id].syncStatus = "local" =>
                IF id \in DOMAIN store THEN store[id].syncStatus = "local"
                ELSE store = EmptyStore]_vars

\* G1 has been marked synced while G2 is still the seeded local record
C38_Witness ==
    /\ Has(store, "G1")
    /\ Has(store, "G2")
    /\ store["G1"].syncStatus = "synced"
    /\ store["G2"].syncStatus = "local"
    /\ last.op = "markSynced"


\* Both quotients end in .5: 200 * cashCount / contributorCount is an odd
\* integer
BothAtHalf(c, n) == (200 * c) % n = 0 /\ ((200 * c) \div n) % 2 = 1

C40_SeededRecords ==
    (last.op = "init" /\ last.pre = EmptyStore) =>
        LET s == last.out.afterInit
        IN  /\ DOMAIN s = {InitialGuests[i].id : i \in 1..Len(InitialGuests)}
            /\ Cardinality(DOMAIN s) = Len(InitialGuests)
            /\ \A i \in 1..Len(InitialGuests) :
                 LET g == InitialGuests[i]
                     r == s[g.id]
                 IN  /\ r.id = g.id
                     /\ r.name = g.name
                     /\ r.side = g.side
                     /\ r.displayName = g.name
                     /\ r.amountRiel = NullNum
                     /\ r.paymentType = "cash"
                     /\ r.bankType = NullStr
                     /\ r.bankRef = NullStr
                     /\ r.note = ""
                     /\ r.syncStatus = "local"
                     /\ r.lastSyncedAt = NullNum
                     /\ ~r.isCustomGuest
                     /\ r.updatedAt = last.at

\* The store was cleared and the next load has seeded it again
C40_Witness ==
    /\ last.op = "init"
    /\ last.pre = EmptyStore
    /\ nops > 0
    /\ Cardinality(DOMAIN last.out.afterInit) = Len(InitialGuests)
    /\ now > 0

====
